---- MODULE Spec2Model ----
(***************************************************************************)
(* The wallet connection coordinator (WalletStore), its persisted          *)
(* selection cell (LocalStorageSubject), the event bridge and the          *)
(* capability-gated signing functions.                                     *)
(*                                                                         *)
(* The store is an @ngrx/component-store over RxJS 7.  Every state update  *)
(* (patchState / updater) goes through the queue scheduler: an update      *)
(* requested while another update is being delivered is queued and runs    *)
(* after it.  Each selector is notified of a new state in the order in     *)
(* which the selectors were first subscribed (the order of the effects in  *)
(* the class), so a combineLatest over several selectors sees intermediate *)
(* tuples.  A handler below is the whole synchronous cascade it starts.    *)
(*                                                                         *)
(* Adapters are the environment.  An adapter changes its own connected /   *)
(* publicKey / readyState only together with the matching event, emits     *)
(* events in turns of its own (never synchronously inside a call made by   *)
(* the store), and settles each call in a later turn.                      *)
(***************************************************************************)
EXTENDS Naturals, Sequences, FiniteSets, TLC

VARIABLES
  state,      \* WalletState, the ComponentStore's state record
  name,       \* the value held by the LocalStorageSubject _name
  storage,    \* localStorage[localStorageKey]: a string, or Null when absent
  adapterConnected,   \* adapter.connected of every adapter
  adapterPublicKey,   \* adapter.publicKey of every adapter
  adapterReadyState,  \* adapter.readyState of every adapter
  calls,      \* adapter calls made by the store whose promise is pending
  cleanup,    \* concatMap of onAdapterChangeDisconnectPreviousAdapter
  auto,       \* concatMap of onAutoConnect
  held,       \* a signing stream returned to the caller, not yet subscribed
  listeners,  \* handlers registered with adapter.on, per adapter and event
  invoked,    \* adapter operations invoked during the last step
  result,     \* what the last step delivered to the caller of the operation
  last        \* the last step: operation and arguments

vars == <<state, name, storage, adapterConnected, adapterPublicKey,
          adapterReadyState, calls, cleanup, auto, held, listeners, invoked,
          result, last>>

(***************************************************************************)
(* Values                                                                  *)
(***************************************************************************)
Null == "null"

\* The adapters that exist, and the wallet names a caller selects.  While
\* only "A" is registered, "B" is a name with no registered adapter.
AdapterNames == {"A", "B"}
WalletNames == AdapterNames

\* The lists handed to setAdapters / WalletConfig.adapters.
AdapterLists == {<<"A">>, <<"A", "B">>}

Installed == "Installed"
Loadable == "Loadable"
NotDetected == "NotDetected"
Unsupported == "Unsupported"
WalletReadyState == {Installed, NotDetected, Loadable, Unsupported}

\* The ready states each adapter moves between in the checked runs.
ReadyStatesOf(a) ==
  IF a = "A" THEN {Installed, NotDetected} ELSE {Loadable}

\* 'signTransaction' in adapter, 'signAllTransactions' in adapter, ...
Capabilities(a) ==
  IF a = "A" THEN {"signMessage", "signTransaction", "signAllTransactions"}
  ELSE {"signTransaction"}
SignOps == {"signMessage", "signTransaction", "signAllTransactions"}
Payloads == {"p1", "p2"}

KeyOf(a) == "pk" \o a

WalletNotSelectedError == "WalletNotSelectedError"
WalletNotConnectedError == "WalletNotConnectedError"
WalletNotReadyError == "WalletNotReadyError"
\* Errors an adapter raises (event payloads and rejections).
AdapterErrors == {"E1"}

\* Bounds of the checked runs.
MaxCalls == 2
MaxBuffer == 1

(***************************************************************************)
(* WalletState                                                             *)
(***************************************************************************)
NoWallet == [adapter |-> Null, readyState |-> Null]

initialState ==
  [wallet |-> NoWallet, adapter |-> Null, connected |-> FALSE,
   publicKey |-> Null, readyState |-> Null]

\* The state handed to super() by the constructor.
ConstructorState(autoConnect) ==
  [wallet |-> initialState.wallet, adapter |-> initialState.adapter,
   connected |-> initialState.connected, publicKey |-> initialState.publicKey,
   wallets |-> <<>>, adapters |-> <<>>, connecting |-> FALSE,
   disconnecting |-> FALSE, unloading |-> FALSE, autoConnect |-> autoConnect,
   readyState |-> Null, error |-> Null]

\* { ...state, ...partial }
Merge(s, p) == [f \in DOMAIN s |-> IF f \in DOMAIN p THEN p[f] ELSE s[f]]

Patch(p) == [type |-> "patch", p |-> p]

\* A variant of the _setError function that records the error whatever the
\* unloading flag says.
setErrorFn_recordsAlways(s, error) == [s EXCEPT !.error = error]

\* A variant of _setError's function that drops the error.
setErrorFn_dropsError(s, error) == s

\* _setError: the updater's function.
setErrorFn(s, error) ==
  [s EXCEPT !.error = IF s.unloading THEN s.error ELSE error]

\* A variant of the _setReadyState function that writes the new value into
\* every entry of wallets.
setReadyStateFn_updatesEveryEntry(s, readyState, walletName) ==
  [s EXCEPT
     !.wallets = [i \in DOMAIN s.wallets |->
                    [s.wallets[i] EXCEPT !.readyState = readyState]],
     !.readyState = IF s.adapter = walletName THEN readyState ELSE s.readyState]

\* _setReadyState: the updater's function.
setReadyStateFn(s, readyState, walletName) ==
  [s EXCEPT
     !.wallets = [i \in DOMAIN s.wallets |->
                    IF s.wallets[i].adapter = walletName
                    THEN [s.wallets[i] EXCEPT !.readyState = readyState]
                    ELSE s.wallets[i]],
     !.readyState = IF s.adapter = walletName THEN readyState ELSE s.readyState]

\* A variant of the setAdapters function that stores the list and leaves
\* wallets as it was.
setAdaptersFn_keepsWallets(s, adapters, ready) == [s EXCEPT !.adapters = adapters]

\* setAdapters: the updater's function; ready is adapter.readyState of each.
setAdaptersFn(s, adapters, ready) ==
  [s EXCEPT
     !.adapters = adapters,
     !.wallets = [i \in DOMAIN adapters |->
                    [adapter |-> adapters[i], readyState |-> ready[adapters[i]]]]]

\* One queued update applied to the state current when it runs.
ApplyUpdate(u, s, ready) ==
  CASE u.type = "patch" -> Merge(s, u.p)
    [] u.type = "setError" -> setErrorFn(s, u.error)
    [] u.type = "setReadyState" -> setReadyStateFn(s, u.readyState, u.walletName)
    [] u.type = "setAdapters" -> setAdaptersFn(s, u.adapters, ready)

(***************************************************************************)
(* The world: everything a handler reads and writes, as one record.        *)
(***************************************************************************)
World ==
  [st |-> state, name |-> name, storage |-> storage,
   aConn |-> adapterConnected, aKey |-> adapterPublicKey,
   aReady |-> adapterReadyState, calls |-> calls, cleanup |-> cleanup,
   auto |-> auto, held |-> held, listeners |-> listeners, q |-> <<>>,
   invoked |-> {}, result |-> [kind |-> "none", value |-> Null],
   dup |-> FALSE]

Call(op, adapter, origin, payload) ==
  [op |-> op, adapter |-> adapter, origin |-> origin, payload |-> payload]

\* The store calls adapter[op](payload): the promise is pending from here on.
Invoke(w, op, adapter, origin, payload) ==
  [w EXCEPT !.calls = @ \cup {Call(op, adapter, origin, payload)},
            !.invoked = @ \cup {[op |-> op, adapter |-> adapter]},
            !.dup = @ \/ Call(op, adapter, origin, payload) \in w.calls]

Enqueue(w, u) == [w EXCEPT !.q = Append(@, u)]

(***************************************************************************)
(* The effects, as reactions to one selector emission.                     *)
(***************************************************************************)
\* wallets.find(({ adapter }) => adapter.name === name)
FindWallet(wallets, n) ==
  LET hits == {i \in DOMAIN wallets : wallets[i].adapter = n}
  IN IF hits = {} THEN NoWallet
     ELSE wallets[CHOOSE i \in hits : \A j \in hits : i <= j]

\* A variant of onWalletChanged whose not-found branch clears the wallet
\* and leaves the other four fields as they are.
onWalletChanged_clearsWalletOnly(w) ==
  LET wallet == FindWallet(w.st.wallets, w.name) IN
  IF wallet # NoWallet
  THEN Enqueue(w, Patch([wallet |-> wallet,
                         adapter |-> wallet.adapter,
                         connected |-> w.aConn[wallet.adapter],
                         publicKey |-> w.aKey[wallet.adapter],
                         readyState |-> w.aReady[wallet.adapter]]))
  ELSE Enqueue(w, Patch([wallet |-> NoWallet]))

\* A variant of onWalletChanged that takes the adapter as not connected
\* instead of reading adapter.connected and adapter.publicKey.
onWalletChanged_assumesNotConnected(w) ==
  LET wallet == FindWallet(w.st.wallets, w.name) IN
  IF wallet # NoWallet
  THEN Enqueue(w, Patch([wallet |-> wallet,
                         adapter |-> wallet.adapter,
                         connected |-> FALSE,
                         publicKey |-> Null,
                         readyState |-> w.aReady[wallet.adapter]]))
  ELSE Enqueue(w, Patch(initialState))

\* A variant of onWalletChanged whose not-found branch also resets error.
onWalletChanged_clearsError(w) ==
  LET wallet == FindWallet(w.st.wallets, w.name) IN
  IF wallet # NoWallet
  THEN Enqueue(w, Patch([wallet |-> wallet,
                         adapter |-> wallet.adapter,
                         connected |-> w.aConn[wallet.adapter],
                         publicKey |-> w.aKey[wallet.adapter],
                         readyState |-> w.aReady[wallet.adapter]]))
  ELSE Enqueue(w, Patch([wallet |-> NoWallet, adapter |-> Null,
                         connected |-> FALSE, publicKey |-> Null,
                         readyState |-> Null, error |-> Null]))

\* onWalletChanged: the tap on combineLatest([_name$, wallets$]).
onWalletChanged(w) ==
  LET wallet == FindWallet(w.st.wallets, w.name) IN
  IF wallet # NoWallet
  THEN Enqueue(w, Patch([wallet |-> wallet,
                         adapter |-> wallet.adapter,
                         connected |-> w.aConn[wallet.adapter],
                         publicKey |-> w.aKey[wallet.adapter],
                         readyState |-> w.aReady[wallet.adapter]]))
  ELSE Enqueue(w, Patch(initialState))

\* onAdapterChangeDisconnectPreviousAdapter: one [previous, current] pair
\* reaching the concatMap.  A pair that arrives while an earlier cleanup
\* disconnect is pending waits in the concatMap's buffer, and its
\* adapter.connected is read when it leaves the buffer (cleanupDrain).  A
\* buffered pair whose previous adapter is null maps to of(null) and is
\* not kept.  Once a cleanup disconnect has rejected the effect's stream
\* has ended with that error and reacts to nothing.
onAdapterChangeDisconnectPreviousAdapter(w, previous) ==
  IF w.cleanup.dead THEN w
  ELSE IF w.cleanup.busy
       THEN IF previous = Null THEN w
            ELSE [w EXCEPT !.cleanup.buf = Append(@, previous)]
  ELSE IF previous # Null /\ w.aConn[previous]
       THEN Invoke([w EXCEPT !.cleanup.busy = TRUE],
                   "disconnect", previous, "cleanup", Null)
  ELSE w

\* A variant of the condition that takes only Installed as ready.
autoConnectSkips_requiresInstalled(t) ==
  \/ ~t.autoConnect
  \/ t.adapter = Null
  \/ t.readyState # Installed
  \/ t.connecting
  \/ t.connected

\* The condition under which onAutoConnect's concatMap returns EMPTY.
autoConnectSkips(t) ==
  \/ ~t.autoConnect
  \/ t.adapter = Null
  \/ (t.readyState # Installed /\ t.readyState # Loadable)
  \/ t.connecting
  \/ t.connected

\* onAutoConnect, past the condition: patchState({connecting: true}) and
\* adapter.connect().
startAutoConnect(w, adapter) ==
  Invoke(Enqueue([w EXCEPT !.auto.busy = TRUE], Patch([connecting |-> TRUE])),
         "connect", adapter, "autoConnect", Null)

\* onAutoConnect: one tuple of combineLatest reaching the concatMap.  The
\* condition reads the tuple alone, so a tuple that waits in the buffer
\* behind a pending connect is kept only when it passes the condition,
\* and as the adapter it names.
onAutoConnect(w, t) ==
  IF autoConnectSkips(t) THEN w
  ELSE IF w.auto.busy THEN [w EXCEPT !.auto.buf = Append(@, t.adapter)]
  ELSE startAutoConnect(w, t.adapter)

\* The events onConnect, onDisconnect and onError listen to.
BridgedEvents == {"connect", "disconnect", "error"}

NoListeners == [a \in AdapterNames |-> [ev \in BridgedEvents |-> 0]]

\* fromAdapterEvent: subscribing calls adapter.on(eventName, handler),
\* unsubscribing calls adapter.off(eventName, handler).
fromAdapterEvent_on(l, adapter, ev) == [l EXCEPT ![adapter][ev] = @ + 1]

fromAdapterEvent_off(l, adapter, ev) ==
  [l EXCEPT ![adapter][ev] = IF @ > 0 THEN @ - 1 ELSE 0]

\* A variant of handleEvent built on mergeMap: the inner subscription to the
\* previous adapter is kept.
handleEvent_keepsPrevious(l, previous, adapter, ev) ==
  IF adapter = Null THEN l ELSE fromAdapterEvent_on(l, adapter, ev)

\* handleEvent: switchMap unsubscribes from the inner observable of the
\* previous adapter, then subscribes to of(null) for null and to the
\* projected fromAdapterEvent otherwise.
handleEvent(l, previous, adapter, ev) ==
  LET l1 == IF previous = Null THEN l
            ELSE fromAdapterEvent_off(l, previous, ev)
  IN IF adapter = Null THEN l1 ELSE fromAdapterEvent_on(l1, adapter, ev)

\* _adapter$ emitted to the three event bridges, in the order of the class:
\* onConnect, onDisconnect, onError.
bridgeEvents(w, previous, adapter) ==
  [w EXCEPT !.listeners =
     handleEvent(handleEvent(handleEvent(@, previous, adapter, "connect"),
                             previous, adapter, "disconnect"),
                 previous, adapter, "error")]

\* The selectors notified of one new state, in the order of their first
\* subscription: _adapter$ (the cleanup effect, then onAutoConnect's
\* combineLatest, then the event bridges), wallets$, _readyState$,
\* autoConnect$, connecting$, connected$.  wallets$ emits whenever the
\* updater built a new wallets array.
Notify(w, old, new, u) ==
  LET t0 == [adapter |-> old.adapter, readyState |-> old.readyState,
             autoConnect |-> old.autoConnect, connecting |-> old.connecting,
             connected |-> old.connected]
      t1 == [t0 EXCEPT !.adapter = new.adapter]
      t2 == [t1 EXCEPT !.readyState = new.readyState]
      t3 == [t2 EXCEPT !.connecting = new.connecting]
      t4 == [t3 EXCEPT !.connected = new.connected]
      w1 == IF new.adapter # old.adapter
            THEN bridgeEvents(
                   onAutoConnect(
                     onAdapterChangeDisconnectPreviousAdapter(w, old.adapter),
                     t1),
                   old.adapter, new.adapter)
            ELSE w
      w2 == IF u.type \in {"setAdapters", "setReadyState"}
            THEN onWalletChanged(w1) ELSE w1
      w3 == IF new.readyState # old.readyState THEN onAutoConnect(w2, t2) ELSE w2
      w4 == IF new.connecting # old.connecting THEN onAutoConnect(w3, t3) ELSE w3
      w5 == IF new.connected # old.connected THEN onAutoConnect(w4, t4) ELSE w4
  IN w5

\* The queue scheduler: run the queued updates, oldest first, each with the
\* notifications it causes, until none is left.
RECURSIVE Flush(_)
Flush(w) ==
  IF w.q = <<>> THEN w
  ELSE LET u == Head(w.q)
           old == w.st
           new == ApplyUpdate(u, old, w.aReady)
       IN Flush(Notify([w EXCEPT !.st = new, !.q = Tail(@)], old, new, u))

\* A state update requested outside any other update runs at once.
patchState(w, p) == Flush(Enqueue(w, Patch(p)))
setError(w, error) == Flush(Enqueue(w, [type |-> "setError", error |-> error]))
setReadyState(w, readyState, walletName) ==
  Flush(Enqueue(w, [type |-> "setReadyState", readyState |-> readyState,
                    walletName |-> walletName]))
setAdapters(w, adapters) ==
  Flush(Enqueue(w, [type |-> "setAdapters", adapters |-> adapters]))

(***************************************************************************)
(* LocalStorageSubject                                                     *)
(***************************************************************************)
\* JSON.stringify of a wallet name.
Stringify(n) == "\"" \o n \o "\""

\* LocalStorageSubject.next: removeItem / setItem, then BehaviorSubject.next,
\* whose subscriber is onWalletChanged's combineLatest.
\* A variant of next() that never removes the stored entry.
LocalStorageSubject_next_keepsEntry(w, value) ==
  Flush(onWalletChanged(
    [w EXCEPT !.storage = IF value = Null THEN @ ELSE Stringify(value),
              !.name = value]))

\* A variant of next() that writes every value, null included, with setItem.
LocalStorageSubject_next_storesNull(w, value) ==
  Flush(onWalletChanged([w EXCEPT !.storage = Stringify(value), !.name = value]))

LocalStorageSubject_next(w, value) ==
  Flush(onWalletChanged(
    [w EXCEPT !.storage = IF value = Null THEN Null ELSE Stringify(value),
              !.name = value]))

\* A variant of a failing write whose exception leaves next() before
\* super.next(value) runs.
LocalStorageSubject_next_throws(w, value) ==
  [w EXCEPT !.result = [kind |-> "error", value |-> "StorageError"]]

\* LocalStorageSubject.next when setItem or removeItem throws: the catch
\* logs, the entry stays as it was, and super.next(value) still runs.
LocalStorageSubject_next_caught(w, value) ==
  Flush(onWalletChanged([w EXCEPT !.name = value]))

selectWallet(w, walletName) == LocalStorageSubject_next(w, walletName)

(***************************************************************************)
(* The store's operations.  An operation's returned Observable is taken    *)
(* as subscribed when the operation is called.                             *)
(***************************************************************************)
WithResult(w, kind, value) == [w EXCEPT !.result = [kind |-> kind, value |-> value]]

Settled(w, c) == [w EXCEPT !.calls = @ \ {c}]

\* Variants of connect()'s filter that leave one flag out.
connectFilter_ignoresDisconnecting(s) == ~s.connected /\ ~s.connecting
connectFilter_ignoresConnected(s) == ~s.connecting /\ ~s.disconnecting
connectFilter_ignoresConnecting(s) == ~s.connected /\ ~s.disconnecting

\* connect(): the filter after first().
connectFilter(s) == ~s.connected /\ ~s.connecting /\ ~s.disconnecting

\* A variant of connect() without the readyState test.
connect_skipsReadyTest(w) ==
  LET s == w.st IN
  IF ~connectFilter(s) THEN WithResult(w, "complete", Null)
  ELSE IF s.adapter = Null
  THEN WithResult(setError(w, WalletNotSelectedError),
                  "error", WalletNotSelectedError)
  ELSE WithResult(Invoke(patchState(w, [connecting |-> TRUE]),
                         "connect", s.adapter, "connect", Null),
                  "pending", Null)

\* connect(), up to the adapter.connect() call.
connect(w) ==
  LET s == w.st IN
  IF ~connectFilter(s) THEN WithResult(w, "complete", Null)
  ELSE IF s.adapter = Null
  THEN WithResult(setError(w, WalletNotSelectedError),
                  "error", WalletNotSelectedError)
  ELSE IF ~(s.readyState = Installed \/ s.readyState = Loadable)
  THEN WithResult(setError(selectWallet(w, Null), WalletNotReadyError),
                  "error", WalletNotReadyError)
  ELSE WithResult(Invoke(patchState(w, [connecting |-> TRUE]),
                         "connect", s.adapter, "connect", Null),
                  "pending", Null)

\* connect(): catchError of a rejected adapter.connect().
connectCatchError(w, error) == WithResult(selectWallet(w, Null), "error", error)

\* A variant of connectSettled without the finalize.
connectSettled_skipsFinalize(w, c, error) ==
  IF error = Null THEN WithResult(Settled(w, c), "value", Null)
  ELSE connectCatchError(Settled(w, c), error)

\* connect(): adapter.connect() settled; error is Null when it resolved.
connectSettled(w, c, error) ==
  LET w1 == IF error = Null THEN WithResult(Settled(w, c), "value", Null)
            ELSE connectCatchError(Settled(w, c), error)
  IN patchState(w1, [connecting |-> FALSE])

\* disconnect(), up to the adapter.disconnect() call.
disconnect(w) ==
  LET s == w.st IN
  IF s.disconnecting THEN WithResult(w, "complete", Null)
  ELSE IF s.adapter = Null
  THEN WithResult(selectWallet(w, Null), "complete", Null)
  ELSE WithResult(Invoke(patchState(w, [disconnecting |-> TRUE]),
                         "disconnect", s.adapter, "disconnect", Null),
                  "pending", Null)

\* A variant of disconnect()'s catchError that swallows the rejection and
\* completes.
disconnectCatchError_swallows(w, error) ==
  WithResult(selectWallet(w, Null), "complete", Null)

\* disconnect(): catchError of a rejected adapter.disconnect().
disconnectCatchError(w, error) == WithResult(selectWallet(w, Null), "error", error)

\* disconnect(): adapter.disconnect() settled; error is Null when it resolved.
disconnectSettled(w, c, error) ==
  LET w1 == IF error = Null THEN WithResult(Settled(w, c), "value", Null)
            ELSE disconnectCatchError(Settled(w, c), error)
  IN patchState(w1, [disconnecting |-> FALSE])

\* A variant of sendTransaction() that clears the selection when it fails
\* for want of a connection, as connect() and disconnect() do.
sendTransaction_clearsSelection(w, transaction) ==
  LET s == w.st IN
  IF s.adapter = Null
  THEN WithResult(setError(w, WalletNotSelectedError),
                  "error", WalletNotSelectedError)
  ELSE IF ~s.connected
  THEN WithResult(setError(selectWallet(w, Null), WalletNotConnectedError),
                  "error", WalletNotConnectedError)
  ELSE WithResult(Invoke(w, "sendTransaction", s.adapter, "send", transaction),
                  "pending", Null)

\* A variant of sendTransaction() without the connected test.
sendTransaction_skipsConnectedTest(w, transaction) ==
  LET s == w.st IN
  IF s.adapter = Null
  THEN WithResult(setError(w, WalletNotSelectedError),
                  "error", WalletNotSelectedError)
  ELSE WithResult(Invoke(w, "sendTransaction", s.adapter, "send", transaction),
                  "pending", Null)

\* sendTransaction(), up to the adapter.sendTransaction() call.
sendTransaction(w, transaction) ==
  LET s == w.st IN
  IF s.adapter = Null
  THEN WithResult(setError(w, WalletNotSelectedError),
                  "error", WalletNotSelectedError)
  ELSE IF ~s.connected
  THEN WithResult(setError(w, WalletNotConnectedError),
                  "error", WalletNotConnectedError)
  ELSE WithResult(Invoke(w, "sendTransaction", s.adapter, "send", transaction),
                  "pending", Null)

\* sendTransaction(): adapter.sendTransaction() settled; the stream
\* forwards the signature or the rejection and nothing else runs.
sendSettled(w, c, error) ==
  IF error = Null THEN WithResult(Settled(w, c), "value", c.payload)
  ELSE WithResult(Settled(w, c), "error", error)

\* onAutoConnect's concatMap takes its next buffered tuple once the inner
\* connect has ended.
autoConnectDrain(w) ==
  IF w.auto.buf = <<>> THEN [w EXCEPT !.auto.busy = FALSE]
  ELSE Flush(startAutoConnect([w EXCEPT !.auto.buf = Tail(@)], Head(w.auto.buf)))

\* onAutoConnect: adapter.connect() settled.  catchError clears the
\* selection and swallows the error; finalize resets connecting; both run
\* while the concatMap still counts the inner connect as active.
autoConnectSettled(w, c, error) ==
  LET w1 == IF error = Null THEN Settled(w, c) ELSE selectWallet(Settled(w, c), Null)
  IN autoConnectDrain(patchState(w1, [connecting |-> FALSE]))

\* The cleanup concatMap takes its buffered pairs once the inner disconnect
\* has completed: each reads adapter.connected now.
RECURSIVE cleanupDrain(_)
cleanupDrain(w) ==
  IF w.cleanup.buf = <<>> THEN [w EXCEPT !.cleanup.busy = FALSE]
  ELSE LET previous == Head(w.cleanup.buf)
           w1 == [w EXCEPT !.cleanup.buf = Tail(@)]
       IN IF w.aConn[previous]
          THEN Invoke(w1, "disconnect", previous, "cleanup", Null)
          ELSE cleanupDrain(w1)

\* onAdapterChangeDisconnectPreviousAdapter: the cleanup disconnect settled.
\* Nothing catches a rejection: it ends the effect's stream.
cleanupSettled(w, c, error) ==
  IF error = Null THEN cleanupDrain(Settled(w, c))
  ELSE [Settled(w, c) EXCEPT !.cleanup = [dead |-> TRUE, busy |-> FALSE, buf |-> <<>>]]

\* onWindowUnload: the tap on window's beforeunload.
\* A variant of onWindowUnload that also marks the wallet disconnected.
onWindowUnload_dropsConnection(w) ==
  patchState(w, [unloading |-> TRUE, connected |-> FALSE, publicKey |-> Null])

onWindowUnload(w) == patchState(w, [unloading |-> TRUE])

\* The event bridges.  handleEvent switches the listener to each adapter
\* _adapter$ emits, so an event reaches onConnect / onDisconnect / onError
\* only from the adapter that state.adapter names.
\* A variant of onConnect that patches connected and leaves publicKey alone.
onConnect_keepsPublicKey(w, adapter) ==
  IF w.st.adapter # adapter THEN w
  ELSE patchState(w, [connected |-> w.aConn[adapter]])

\* A variant of onConnect that clears the selection.
onConnect_clearsSelection(w, adapter) ==
  IF w.st.adapter # adapter THEN w
  ELSE selectWallet(w, Null)

\* A variant of onConnect that leaves the state as it is.
onConnect_ignoresEvent(w, adapter) == w

onConnect(w, adapter) ==
  IF w.st.adapter # adapter THEN w
  ELSE patchState(w, [connected |-> w.aConn[adapter],
                      publicKey |-> w.aKey[adapter]])

\* A variant of onDisconnect that does not read unloading.
onDisconnect_ignoresUnloading(w, adapter) ==
  IF w.st.adapter # adapter THEN w
  ELSE selectWallet(w, Null)

onDisconnect(w, adapter) ==
  IF w.st.adapter # adapter THEN w
  ELSE IF w.st.unloading THEN w
  ELSE selectWallet(w, Null)

onError(w, adapter, error) ==
  IF w.st.adapter # adapter THEN w ELSE setError(w, error)

\* onReadyStateChanges listens to every adapter of state.adapters.
IsRegistered(s, adapter) == \E i \in DOMAIN s.adapters : s.adapters[i] = adapter

onReadyStateChanges(w, adapter, readyState) ==
  IF ~IsRegistered(w.st, adapter) THEN w
  ELSE setReadyState(w, readyState, adapter)

(***************************************************************************)
(* Signing                                                                 *)
(***************************************************************************)
NoStream ==
  [kind |-> "none", op |-> Null, adapter |-> Null, connected |-> FALSE,
   payload |-> Null]

\* A variant of signMessage that does not read connected.
signMessage_ignoresConnected(adapter, connected, message) ==
  [kind |-> "defer", op |-> "signMessage", adapter |-> adapter,
   connected |-> connected, payload |-> message]

\* internals: signMessage(adapter, connected, errorHandler)(message).
\* The stream returned keeps the arguments it was built from; throwError's
\* factory runs, and calls errorHandler, at subscription.
signMessage(adapter, connected, message) ==
  IF ~connected
  THEN [kind |-> "throwError", op |-> "signMessage", adapter |-> adapter,
        connected |-> connected,
        payload |-> message]
  ELSE [kind |-> "defer", op |-> "signMessage", adapter |-> adapter,
        connected |-> connected,
        payload |-> message]

\* internals: signTransaction(adapter, connected, errorHandler)(transaction).
signTransaction(adapter, connected, transaction) ==
  IF ~connected
  THEN [kind |-> "throwError", op |-> "signTransaction", adapter |-> adapter,
        connected |-> connected,
        payload |-> transaction]
  ELSE [kind |-> "defer", op |-> "signTransaction", adapter |-> adapter,
        connected |-> connected,
        payload |-> transaction]

\* internals: signAllTransactions(adapter, connected, errorHandler)(transactions).
signAllTransactions(adapter, connected, transactions) ==
  IF ~connected
  THEN [kind |-> "throwError", op |-> "signAllTransactions", adapter |-> adapter,
        connected |-> connected,
        payload |-> transactions]
  ELSE [kind |-> "defer", op |-> "signAllTransactions", adapter |-> adapter,
        connected |-> connected,
        payload |-> transactions]

\* A variant of the anchorWallet$ projector that tests signTransaction only.
anchorWallet_skipsSignAllTest(s) ==
  IF /\ s.publicKey # Null
     /\ s.adapter # Null
     /\ "signTransaction" \in Capabilities(s.adapter)
  THEN [kind |-> "wallet", publicKey |-> s.publicKey]
  ELSE [kind |-> "undefined", publicKey |-> Null]

\* anchorWallet$: the projector over publicKey$, _adapter$ and connected$.
\* The two signing functions are built only when the adapter has the
\* property; the view is an object when all three are truthy.
anchorWallet(s) ==
  LET adapterSignTransaction ==
        s.adapter # Null /\ "signTransaction" \in Capabilities(s.adapter)
      adapterSignAllTransactions ==
        s.adapter # Null /\ "signAllTransactions" \in Capabilities(s.adapter)
  IN IF s.publicKey # Null /\ adapterSignTransaction
                          /\ adapterSignAllTransactions
     THEN [kind |-> "wallet", publicKey |-> s.publicKey]
     ELSE [kind |-> "undefined", publicKey |-> Null]

\* A variant of the store's signing methods without the capability test.
storeSign_skipsCapabilityTest(w, op, payload) ==
  LET adapter == w.st.adapter
      connected == w.st.connected
  IN IF adapter # Null
     THEN [WithResult(w, "stream", Null) EXCEPT
             !.held = CASE op = "signMessage" ->
                             signMessage(adapter, connected, payload)
                        [] op = "signTransaction" ->
                             signTransaction(adapter, connected, payload)
                        [] op = "signAllTransactions" ->
                             signAllTransactions(adapter, connected, payload)]
     ELSE WithResult(w, "undefined", Null)

\* WalletStore.signMessage / signTransaction / signAllTransactions: the
\* capability test and the internals function of the same name.
storeSign(w, op, payload) ==
  LET adapter == w.st.adapter
      connected == w.st.connected
  IN IF adapter # Null /\ op \in Capabilities(adapter)
     THEN [WithResult(w, "stream", Null) EXCEPT
             !.held = CASE op = "signMessage" ->
                             signMessage(adapter, connected, payload)
                        [] op = "signTransaction" ->
                             signTransaction(adapter, connected, payload)
                        [] op = "signAllTransactions" ->
                             signAllTransactions(adapter, connected, payload)]
     ELSE WithResult(w, "undefined", Null)

\* A variant of the errorHandler that does not call _setError.
errorHandler_skipsSetError(w, error) == [w |-> w, returns |-> "Subscription"]

\* The errorHandler the store passes: (error) => this._setError(error).
\* The arrow returns what the updater call returns, a Subscription.
errorHandler(w, error) == [w |-> setError(w, error), returns |-> "Subscription"]

\* The caller subscribes to the stream it holds.  throwError(() =>
\* errorHandler(new WalletNotConnectedError())) fails with the value its
\* factory returns; from(defer(() => adapter[op](payload))) calls the adapter.
subscribeSigning(w) ==
  LET h == w.held
      w1 == [w EXCEPT !.held = NoStream]
  IN IF h.kind = "throwError"
     THEN LET r == errorHandler(w1, WalletNotConnectedError)
          IN WithResult(r.w, "error", r.returns)
     ELSE WithResult(Invoke(w1, h.op, h.adapter, "sign", h.payload),
                     "pending", Null)

\* The adapter's signing call settled: the stream forwards it verbatim.
signSettled(w, c, error) ==
  IF error = Null THEN WithResult(Settled(w, c), "value", c.payload)
  ELSE WithResult(Settled(w, c), "error", error)

(***************************************************************************)
(* Construction                                                            *)
(***************************************************************************)
\* getInitialValue: JSON.parse of the stored string; null when the entry is
\* absent, empty, or does not parse.
\* A variant of getInitialValue that never reads the stored entry.
getInitialValue_ignoresEntry(stored) == Null

getInitialValue(stored) ==
  IF stored = Null \/ stored = "" THEN Null
  ELSE IF \E n \in WalletNames : Stringify(n) = stored
       THEN CHOOSE n \in WalletNames : Stringify(n) = stored
       ELSE Null

\* new WalletStore(config): the effects subscribe in the order of the
\* class, then the constructor calls setAdapters(config.adapters).
\* getInitialValue when localStorage.getItem throws: the catch logs and the
\* function returns null.
getInitialValue_caught == Null

\* The constructor over a LocalStorageSubject whose initial value is given.
constructFrom(initial, autoConnect, adapters, stored, conn, key, ready) ==
  LET w0 == [st |-> ConstructorState(autoConnect),
             name |-> initial, storage |-> stored,
             aConn |-> conn, aKey |-> key, aReady |-> ready,
             calls |-> {},
             cleanup |-> [dead |-> FALSE, busy |-> FALSE, buf |-> <<>>],
             auto |-> [busy |-> FALSE, buf |-> <<>>],
             held |-> NoStream, listeners |-> NoListeners, q |-> <<>>,
             invoked |-> {}, result |-> [kind |-> "none", value |-> Null],
             dup |-> FALSE]
  IN setAdapters(Flush(onWalletChanged(w0)), adapters)

construct(autoConnect, adapters, stored, conn, key, ready) ==
  constructFrom(getInitialValue(stored), autoConnect, adapters, stored,
                conn, key, ready)

(***************************************************************************)
(* The state machine                                                       *)
(***************************************************************************)
Label(op, a, x) == [op |-> op, a |-> a, x |-> x]
NoResult == [kind |-> "none", value |-> Null]

\* The step that takes the world to w.  invoked, result and last observe
\* the step and are read by no handler; a specification records them for
\* the operations in its focus F and leaves them blank for the others.
Commit(w, label, F) ==
  /\ ~w.dup
  /\ Cardinality(w.calls) <= MaxCalls
  /\ Len(w.cleanup.buf) <= MaxBuffer
  /\ Len(w.auto.buf) <= MaxBuffer
  /\ state' = w.st
  /\ name' = w.name
  /\ storage' = w.storage
  /\ adapterConnected' = w.aConn
  /\ adapterPublicKey' = w.aKey
  /\ adapterReadyState' = w.aReady
  /\ calls' = w.calls
  /\ cleanup' = w.cleanup
  /\ auto' = w.auto
  /\ held' = w.held
  /\ listeners' = w.listeners
  /\ invoked' = IF label.op \in F THEN w.invoked ELSE {}
  /\ result' = IF label.op \in F THEN w.result ELSE NoResult
  /\ last' = IF label.op \in F THEN label ELSE Label("other", Null, Null)

InitialStorage == {Null, Stringify("A")}

\* What localStorage can hold when a page loads again: nothing, text that
\* JSON.parse rejects, or the name a previous page stored.
ReloadStorage == {Null, "{", Stringify("A"), Stringify("B")}

InitFrom(entries) ==
  \E autoConnect \in BOOLEAN, adapters \in AdapterLists, stored \in entries :
    LET w == construct(autoConnect, adapters, stored,
                       [a \in AdapterNames |-> FALSE],
                       [a \in AdapterNames |-> Null],
                       [a \in AdapterNames |->
                          IF a = "A" THEN Installed ELSE Loadable])
    IN /\ state = w.st
       /\ name = w.name
       /\ storage = w.storage
       /\ adapterConnected = w.aConn
       /\ adapterPublicKey = w.aKey
       /\ adapterReadyState = w.aReady
       /\ calls = w.calls
       /\ cleanup = w.cleanup
       /\ auto = w.auto
       /\ held = w.held
       /\ listeners = w.listeners
       /\ invoked = w.invoked
       /\ result = w.result
       /\ last = Label("construct", Null, Null)

Init == InitFrom(InitialStorage)

\* The page loads again: a new WalletStore is constructed over the entry the
\* previous one left in localStorage, with fresh adapter objects.
Reload(F) ==
  \E autoConnect \in BOOLEAN, adapters \in AdapterLists :
    LET fresh == [World EXCEPT !.aConn = [a \in AdapterNames |-> FALSE],
                               !.aKey = [a \in AdapterNames |-> Null]]
    IN /\ Commit(construct(autoConnect, adapters, storage,
                           fresh.aConn, fresh.aKey, adapterReadyState),
                 Label("construct", Null, Null), F)

\* The page loads again and localStorage.getItem throws.
ReloadReadFails(F) ==
  \E autoConnect \in BOOLEAN, adapters \in AdapterLists :
    /\ Commit(constructFrom(getInitialValue_caught, autoConnect, adapters,
                            storage, [a \in AdapterNames |-> FALSE],
                            [a \in AdapterNames |-> Null], adapterReadyState),
              Label("constructReadFails", Null, Null), F)

\* selectWallet(n) while localStorage rejects the write.
SelectWalletWriteFails(F) ==
  \E n \in WalletNames \cup {Null} :
    /\ Commit(LocalStorageSubject_next_caught(World, n),
              Label("selectWalletWriteFails", n, Null), F)

\* The user's commands.
SelectWallet(F) ==
  \E n \in WalletNames \cup {Null} :
    /\ Commit(selectWallet(World, n), Label("selectWallet", n, Null), F)

SetAdapters(F) ==
  \E adapters \in AdapterLists :
    /\ Commit(setAdapters(World, adapters), Label("setAdapters", Null, Null), F)

Connect(F) ==
  /\ Commit(connect(World), Label("connect", state.adapter, Null), F)

Disconnect(F) ==
  /\ Commit(disconnect(World), Label("disconnect", state.adapter, Null), F)

\* store.signX(payload).subscribe(): the call and the subscription at once.
Sign(F) ==
  \E op \in SignOps, payload \in Payloads :
    LET w == storeSign(World, op, payload)
    IN /\ Commit(IF w.result.kind = "undefined" THEN w ELSE subscribeSigning(w),
                 Label(op, state.adapter, payload), F)

\* store.signX(payload): the caller keeps the returned stream for later.
Obtain(F) ==
  \E op \in SignOps, payload \in Payloads :
    /\ Commit(storeSign(World, op, payload), Label("obtain", state.adapter, op), F)

Subscribe(F) ==
  /\ held # NoStream
  /\ Commit(subscribeSigning(World), Label("subscribe", held.adapter, held.op), F)

SendTransaction(F) ==
  \E transaction \in Payloads :
    /\ Commit(sendTransaction(World, transaction),
              Label("sendTransaction", state.adapter, transaction), F)

WindowUnload(F) ==
  /\ ~state.unloading
  /\ Commit(onWindowUnload(World), Label("beforeunload", Null, Null), F)

\* The adapters' calls settle.
ConnectSettles(F) ==
  \E c \in calls, error \in AdapterErrors \cup {Null} :
    /\ c.op = "connect" /\ c.origin = "connect"
    /\ error = Null => adapterConnected[c.adapter]
    /\ Commit(connectSettled(World, c, error),
              Label("connectSettled", c.adapter, error), F)

AutoConnectSettles(F) ==
  \E c \in calls, error \in AdapterErrors \cup {Null} :
    /\ c.op = "connect" /\ c.origin = "autoConnect"
    /\ error = Null => adapterConnected[c.adapter]
    /\ Commit(autoConnectSettled(World, c, error),
              Label("autoConnectSettled", c.adapter, error), F)

DisconnectSettles(F) ==
  \E c \in calls, error \in AdapterErrors \cup {Null} :
    /\ c.op = "disconnect" /\ c.origin = "disconnect"
    /\ error = Null => ~adapterConnected[c.adapter]
    /\ Commit(disconnectSettled(World, c, error),
              Label("disconnectSettled", c.adapter, error), F)

CleanupSettles(F) ==
  \E c \in calls, error \in AdapterErrors \cup {Null} :
    /\ c.op = "disconnect" /\ c.origin = "cleanup"
    /\ error = Null => ~adapterConnected[c.adapter]
    /\ Commit(cleanupSettled(World, c, error),
              Label("cleanupSettled", c.adapter, error), F)

SendSettles(F) ==
  \E c \in calls, error \in AdapterErrors \cup {Null} :
    /\ c.origin = "send"
    /\ Commit(sendSettled(World, c, error), Label("sendSettled", c.adapter, error), F)

SignSettles(F) ==
  \E c \in calls, error \in AdapterErrors \cup {Null} :
    /\ c.origin = "sign"
    /\ Commit(signSettled(World, c, error), Label("signSettled", c.adapter, error), F)

\* The adapters' events.  The adapter changes its own fields, then emits.
\* Origin tells whether the emitting adapter is the selected one.
Origin(a) == IF state.adapter = a THEN "selected" ELSE "notSelected"

AdapterConnects(F) ==
  \E a \in AdapterNames :
    /\ ~adapterConnected[a]
    /\ Commit(onConnect([World EXCEPT !.aConn[a] = TRUE, !.aKey[a] = KeyOf(a)], a),
              Label("connectEvent", a, Origin(a)), F)

AdapterDisconnects(F) ==
  \E a \in AdapterNames :
    /\ Commit(onDisconnect([World EXCEPT !.aConn[a] = FALSE, !.aKey[a] = Null], a),
              Label("disconnectEvent", a, Origin(a)), F)

AdapterErrs(F) ==
  \E a \in AdapterNames, error \in AdapterErrors :
    /\ Commit(onError(World, a, error), Label("errorEvent", a, error), F)

AdapterReadyStateChanges(F) ==
  \E a \in AdapterNames : \E r \in ReadyStatesOf(a) :
    /\ r # adapterReadyState[a]
    /\ Commit(onReadyStateChanges([World EXCEPT !.aReady[a] = r], a, r),
              Label("readyStateChange", a, r), F)

\* The coordinator's life cycle.
Next(F) ==
  \/ SelectWallet(F)
  \/ SetAdapters(F)
  \/ Connect(F)
  \/ Disconnect(F)
  \/ WindowUnload(F)
  \/ ConnectSettles(F)
  \/ AutoConnectSettles(F)
  \/ DisconnectSettles(F)
  \/ CleanupSettles(F)
  \/ AdapterConnects(F)
  \/ AdapterDisconnects(F)
  \/ AdapterErrs(F)
  \/ AdapterReadyStateChanges(F)

\* Signing against whatever selection and connection the events produce.
NextSign(F) ==
  \/ SelectWallet(F)
  \/ WindowUnload(F)
  \/ AdapterConnects(F)
  \/ AdapterDisconnects(F)
  \/ Sign(F)
  \/ SignSettles(F)

\* No step is observed.
Spec == Init /\ [][Next({})]_vars

\* connect() is observed.
SpecConnect == Init /\ [][Next({"connect"})]_vars

\* The settlement of the adapter's connect call is observed.
SpecConnectSettled == Init /\ [][Next({"connectSettled"})]_vars

\* The adapters' disconnect events are observed.
SpecDisconnectEvent == Init /\ [][Next({"disconnectEvent"})]_vars

\* selectWallet() and the events of the adapters are observed.
SpecSelect ==
  Init /\ [][Next({"selectWallet", "connectEvent", "disconnectEvent",
                   "errorEvent"})]_vars

\* Signing whose caller subscribes later, after other events.
NextSignLater(F) ==
  \/ SelectWallet(F)
  \/ AdapterConnects(F)
  \/ AdapterDisconnects(F)
  \/ Obtain(F)
  \/ Subscribe(F)
  \/ SignSettles(F)

\* The signing calls are observed.
SpecSign == Init /\ [][NextSign(SignOps)]_vars

\* The subscriptions to the signing streams are observed.
SpecSignLater == Init /\ [][NextSignLater({"subscribe"})]_vars

\* selectWallet() is observed.
SpecSelectWallet == Init /\ [][Next({"selectWallet"})]_vars

\* connect() and the settlement of its adapter call are observed.
SpecConnectCall == Init /\ [][Next({"connect", "connectSettled"})]_vars

\* disconnect() and the settlement of its adapter call are observed.
SpecDisconnectCall == Init /\ [][Next({"disconnect", "disconnectSettled"})]_vars

\* Sending transactions and disconnecting, against whatever selection and
\* connection the events produce.
NextSend(F) ==
  \/ SelectWallet(F)
  \/ WindowUnload(F)
  \/ AdapterConnects(F)
  \/ AdapterDisconnects(F)
  \/ Disconnect(F)
  \/ DisconnectSettles(F)
  \/ SendTransaction(F)
  \/ SendSettles(F)

\* sendTransaction() and the settlements of the adapter calls made by
\* sendTransaction() and by disconnect() are observed.
SpecSend ==
  Init /\ [][NextSend({"sendTransaction", "sendSettled",
                       "disconnectSettled"})]_vars

\* The settlement of the connect call made by onAutoConnect is observed.
SpecAutoConnectSettled == Init /\ [][Next({"autoConnectSettled"})]_vars

\* The sources of an error that the store records: adapter error events,
\* connect(), sendTransaction() and the signing functions, with the page able
\* to start unloading at any point.
NextErrorSources(F) ==
  \/ SelectWallet(F)
  \/ WindowUnload(F)
  \/ AdapterConnects(F)
  \/ AdapterErrs(F)
  \/ Connect(F)
  \/ ConnectSettles(F)
  \/ SendTransaction(F)
  \/ SendSettles(F)
  \/ Sign(F)
  \/ SignSettles(F)

\* The adapter's error events are observed.
SpecErrorEvents == Init /\ [][NextErrorSources({"errorEvent"})]_vars

\* connect(), disconnect() and sendTransaction() with the page able to start
\* unloading at any point.
NextErrorResults(F) ==
  \/ SelectWallet(F)
  \/ WindowUnload(F)
  \/ AdapterConnects(F)
  \/ AdapterReadyStateChanges(F)
  \/ Connect(F)
  \/ ConnectSettles(F)
  \/ Disconnect(F)
  \/ DisconnectSettles(F)
  \/ SendTransaction(F)
  \/ SendSettles(F)

\* The settlements of the adapter calls made by connect(), disconnect() and
\* sendTransaction() are observed.
SpecErrorResults ==
  Init /\ [][NextErrorResults({"connectSettled", "disconnectSettled",
                               "sendSettled"})]_vars

\* Page loads over every kind of stored entry, each construction observed.
NextReload(F) == Next(F) \/ Reload(F)

SpecReload == InitFrom(ReloadStorage) /\ [][NextReload({"construct"})]_vars

\* Every world one step of Next can produce from the current state, before
\* the bounds of the checked runs are applied to it.
StepWorlds ==
  {connect(World), disconnect(World), onWindowUnload(World)}
  \cup {selectWallet(World, n) : n \in WalletNames \cup {Null}}
  \cup {setAdapters(World, l) : l \in AdapterLists}
  \cup UNION {{connectSettled(World, c, e) : e \in AdapterErrors \cup {Null}} :
               c \in {d \in calls : d.op = "connect" /\ d.origin = "connect"}}
  \cup UNION {{autoConnectSettled(World, c, e) : e \in AdapterErrors \cup {Null}} :
               c \in {d \in calls : d.op = "connect" /\ d.origin = "autoConnect"}}
  \cup UNION {{disconnectSettled(World, c, e) : e \in AdapterErrors \cup {Null}} :
               c \in {d \in calls : d.op = "disconnect" /\ d.origin = "disconnect"}}
  \cup UNION {{cleanupSettled(World, c, e) : e \in AdapterErrors \cup {Null}} :
               c \in {d \in calls : d.op = "disconnect" /\ d.origin = "cleanup"}}
  \cup {onConnect([World EXCEPT !.aConn[a] = TRUE, !.aKey[a] = KeyOf(a)], a) :
          a \in AdapterNames}
  \cup {onDisconnect([World EXCEPT !.aConn[a] = FALSE, !.aKey[a] = Null], a) :
          a \in AdapterNames}
  \cup UNION {{onError(World, a, e) : e \in AdapterErrors} : a \in AdapterNames}
  \cup UNION {{onReadyStateChanges([World EXCEPT !.aReady[a] = r], a, r) :
                 r \in ReadyStatesOf(a)} : a \in AdapterNames}

\* The adapters' readyStateChange events are observed.
SpecReadyState == Init /\ [][Next({"readyStateChange"})]_vars

\* A durable store that can fail: reads at construction and writes of
\* selectWallet may throw.
NextStorage(F) ==
  \/ SelectWallet(F)
  \/ SelectWalletWriteFails(F)
  \/ SetAdapters(F)
  \/ Reload(F)
  \/ ReloadReadFails(F)
  \/ AdapterConnects(F)
  \/ AdapterDisconnects(F)
  \/ AutoConnectSettles(F)
  \/ CleanupSettles(F)

SpecStorage ==
  InitFrom(ReloadStorage)
    /\ [][NextStorage({"construct", "constructReadFails",
                       "selectWalletWriteFails"})]_vars

\* The settlements of the calls made by connect() and disconnect() are
\* observed.
SpecCallsSettled == Init /\ [][Next({"connectSettled", "disconnectSettled"})]_vars

\* The connect and disconnect calls, the selection changes and the adapters'
\* connect and disconnect events between them.
NextCalls(F) ==
  \/ SelectWallet(F)
  \/ Connect(F)
  \/ Disconnect(F)
  \/ WindowUnload(F)
  \/ AdapterConnects(F)
  \/ AdapterDisconnects(F)
  \/ ConnectSettles(F)
  \/ AutoConnectSettles(F)
  \/ DisconnectSettles(F)
  \/ CleanupSettles(F)

\* A call of this operation and origin is pending: the step that settles it
\* is enabled exactly then, since a rejection is always possible.
PendingCall(op, origin) == \E c \in calls : c.op = op /\ c.origin = origin

\* Every adapter call eventually settles: weak fairness of each settling
\* step, written out as "infinitely often not enabled or infinitely often
\* taken" (WF_vars of the step) with PendingCall as the enabling condition.
\* The settlement of onAutoConnect's call is observed.
SpecCallsSettle ==
  /\ Init /\ [][NextCalls({"autoConnectSettled"})]_vars
  /\ \/ []<>~PendingCall("connect", "connect")
     \/ []<><<ConnectSettles({"autoConnectSettled"})>>_vars
  /\ \/ []<>~PendingCall("connect", "autoConnect")
     \/ []<><<AutoConnectSettles({"autoConnectSettled"})>>_vars
  /\ \/ []<>~PendingCall("disconnect", "disconnect")
     \/ []<><<DisconnectSettles({"autoConnectSettled"})>>_vars
  /\ \/ []<>~PendingCall("disconnect", "cleanup")
     \/ []<><<CleanupSettles({"autoConnectSettled"})>>_vars

(***************************************************************************)
(* Properties                                                              *)
(***************************************************************************)
IdleDefaults(s) ==
  /\ s.wallet = NoWallet
  /\ s.adapter = Null
  /\ s.publicKey = Null
  /\ s.readyState = Null
  /\ ~s.connected

\* C1, as stated: in every reachable state connecting and disconnecting are
\* not both true.
C1_Original == ~(state.connecting /\ state.disconnecting)

\* C1, amended: connect() never makes connecting and disconnecting both
\* true; it is disconnect() called during a pending connect, and the
\* autoConnect effect during a pending disconnect, that overlap the two.
C1_ConnectNeverOverlaps ==
  [][(last'.op = "connect" /\ state'.connecting /\ state'.disconnecting)
       => (state.connecting /\ state.disconnecting)]_vars

\* connect() was called during a pending disconnect and started nothing.
C1_Witness ==
  /\ last.op = "connect"
  /\ state.adapter # Null
  /\ state.disconnecting
  /\ ~state.connecting
  /\ ~state.connected

\* C2: the state is either the five Idle defaults, or a full snapshot in
\* which wallet and adapter are present, adapter is the wallet's adapter,
\* the wallet is the registered entry of that name and readyState is set.
C2_IdleOrFullSnapshot ==
  \/ IdleDefaults(state)
  \/ /\ state.wallet # NoWallet
     /\ state.adapter # Null
     /\ state.wallet.adapter = state.adapter
     /\ state.wallet = FindWallet(state.wallets, state.adapter)
     /\ state.readyState \in WalletReadyState

\* A full snapshot of B, connected, after B was registered and selected.
C2_Witness ==
  /\ state.adapter = "B"
  /\ state.wallet # NoWallet
  /\ state.connected
  /\ state.publicKey = KeyOf("B")

\* C3: connect() called while connecting, disconnecting or connected
\* changes no state, calls no adapter, and its result completes without a
\* value and without an error.
C3_ConnectGatedIsNoOp ==
  [][(/\ last'.op = "connect"
      /\ (state.connecting \/ state.disconnecting \/ state.connected))
       => (/\ state' = state
           /\ name' = name
           /\ storage' = storage
           /\ calls' = calls
           /\ invoked' = {}
           /\ result'.kind = "complete")]_vars

\* connect() was called on a connected wallet and completed empty.
C3_Witness ==
  /\ last.op = "connect"
  /\ state.connected
  /\ result.kind = "complete"
  /\ invoked = {}

\* C4, as stated: after the adapter connect call made by connect() has
\* rejected, connecting is false, no wallet is selected and state.error is
\* the rejection payload.
C4_Original ==
  (last.op = "connectSettled" /\ last.x # Null)
    => (/\ ~state.connecting
        /\ name = Null
        /\ state.wallet = NoWallet
        /\ state.adapter = Null
        /\ state.error = last.x)

\* C5: a disconnect event of the selected adapter while unloading is false
\* returns the state to the Idle defaults and removes the stored entry.
C5_DisconnectEventClears ==
  [][(/\ last'.op = "disconnectEvent"
      /\ last'.a = state.adapter
      /\ ~state.unloading)
       => (/\ IdleDefaults(state')
           /\ name' = Null
           /\ storage' = Null)]_vars

\* The selected adapter emitted disconnect, and the selection is gone.
C5_Witness ==
  /\ last.op = "disconnectEvent"
  /\ last.x = "selected"
  /\ ~state.unloading
  /\ IdleDefaults(state)
  /\ storage = Null

\* C6: a disconnect event of the selected adapter while unloading is true
\* leaves every state field and the stored selection as they were.
C6_DisconnectEventWhileUnloading ==
  [][(/\ last'.op = "disconnectEvent"
      /\ last'.a = state.adapter
      /\ state.unloading)
       => (/\ state' = state
           /\ name' = name
           /\ storage' = storage)]_vars

\* The selected adapter emitted disconnect during unloading: the state
\* still shows it selected and connected, and the entry is still stored.
C6_Witness ==
  /\ last.op = "disconnectEvent"
  /\ last.x = "selected"
  /\ state.unloading
  /\ state.adapter = last.a
  /\ state.connected
  /\ storage = Stringify(last.a)

\* C7, as stated: selectWallet("B") on a wallet connected through A calls
\* A's disconnect as cleanup (at once, or queued behind a pending cleanup)
\* and makes B the wallet and the adapter; and a connect, disconnect or
\* error event of an adapter that is not the selected one changes nothing.
C7_Original ==
  [][/\ (/\ last'.op = "selectWallet"
          /\ last'.a = "B"
          /\ IsRegistered(state, "B")
          /\ state.adapter = "A"
          /\ state.connected
          /\ adapterConnected["A"])
           => (/\ \/ \E c \in invoked' : c.op = "disconnect" /\ c.adapter = "A"
                  \/ \E i \in DOMAIN cleanup'.buf : cleanup'.buf[i] = "A"
               /\ state'.adapter = "B"
               /\ state'.wallet.adapter = "B")
     /\ (/\ last'.op \in {"connectEvent", "disconnectEvent", "errorEvent"}
          /\ last'.a # state.adapter)
           => (/\ state' = state
               /\ name' = name
               /\ storage' = storage)]_vars

\* C8: a signing stream obtained while the adapter has the capability and
\* connected is false never calls the adapter, whatever the payload and
\* whenever it is subscribed.
C8_SignNotConnectedCallsNothing ==
  [][(last'.op = "subscribe" /\ ~held.connected)
       => (/\ invoked' = {}
           /\ calls' = calls)]_vars

\* A signMessage stream obtained from A before A connected was subscribed
\* after A connected: it failed and no adapter call was made.
C8_Witness ==
  /\ last.op = "subscribe"
  /\ last.a = "A"
  /\ last.x = "signMessage"
  /\ state.adapter = "A"
  /\ state.connected
  /\ result.kind = "error"
  /\ invoked = {}
  /\ calls = {}

\* C9, as stated: in that situation the returned stream fails, the failure
\* value is a WalletNotConnectedError, and the same error is in state.error.
C9_Original ==
  [][(/\ last'.op \in SignOps
      /\ state.adapter # Null
      /\ last'.op \in Capabilities(state.adapter)
      /\ ~state.connected)
       => (/\ result'.kind = "error"
           /\ result'.value = WalletNotConnectedError
           /\ state'.error = WalletNotConnectedError)]_vars

\* C10: a signing call made while no adapter is selected, or while the
\* selected adapter lacks the capability, returns undefined, calls no
\* adapter and changes no state.
C10_SignWithoutCapability ==
  [][(/\ last'.op \in SignOps
      /\ (state.adapter = Null \/ last'.op \notin Capabilities(state.adapter)))
       => (/\ result'.kind = "undefined"
           /\ invoked' = {}
           /\ calls' = calls
           /\ state' = state
           /\ name' = name
           /\ storage' = storage)]_vars

\* signMessage was called on B, which has no signMessage, while connected.
C10_Witness ==
  /\ last.op = "signMessage"
  /\ last.a = "B"
  /\ state.adapter = "B"
  /\ state.connected
  /\ result.kind = "undefined"
  /\ invoked = {}

\* C11, as stated: connect() with no adapter selected and connecting,
\* disconnecting, connected all false fails with WalletNotSelectedError,
\* sets state.error to that error and calls no adapter.
C11_Original ==
  [][(/\ last'.op = "connect"
      /\ state.adapter = Null
      /\ ~state.connecting /\ ~state.disconnecting /\ ~state.connected)
       => (/\ result' = [kind |-> "error", value |-> WalletNotSelectedError]
           /\ state'.error = WalletNotSelectedError
           /\ invoked' = {}
           /\ calls' = calls)]_vars

\* C11, amended: the same, except that state.error gets the error only
\* while unloading is false and keeps its value while unloading is true.
C11_ConnectNotSelected ==
  [][(/\ last'.op = "connect"
      /\ state.adapter = Null
      /\ ~state.connecting /\ ~state.disconnecting /\ ~state.connected)
       => (/\ result' = [kind |-> "error", value |-> WalletNotSelectedError]
           /\ state'.error = IF state.unloading THEN state.error
                              ELSE WalletNotSelectedError
           /\ invoked' = {}
           /\ calls' = calls)]_vars

\* connect() was called with nothing selected and unloading false: it
\* failed and state.error is now WalletNotSelectedError.
C11_Witness ==
  /\ last.op = "connect"
  /\ last.a = Null
  /\ state.adapter = Null
  /\ ~state.unloading
  /\ result = [kind |-> "error", value |-> WalletNotSelectedError]
  /\ state.error = WalletNotSelectedError
  /\ invoked = {}

\* C12: selectWallet(n) for the name of a registered adapter gives a state
\* whose wallet and adapter are n and whose connected, publicKey and
\* readyState are the adapter's own at that moment.
C12_SelectSnapshots ==
  [][(/\ last'.op = "selectWallet"
      /\ last'.a # Null
      /\ IsRegistered(state, last'.a))
       => (/\ state'.wallet # NoWallet
           /\ state'.wallet.adapter = last'.a
           /\ state'.adapter = last'.a
           /\ state'.connected = adapterConnected'[last'.a]
           /\ state'.publicKey = adapterPublicKey'[last'.a]
           /\ state'.readyState = adapterReadyState'[last'.a])]_vars

\* B, connected outside the store, was selected: the state shows it
\* connected although the store made no connect call.
C12_Witness ==
  /\ last.op = "selectWallet"
  /\ last.a = "B"
  /\ state.adapter = "B"
  /\ state.connected
  /\ state.publicKey = KeyOf("B")
  /\ \A c \in calls : c.op # "connect"

\* C13, as stated: connect() on a selected adapter that is Installed or
\* Loadable, with connecting, disconnecting and connected all false, sets
\* connecting and calls that adapter's connect exactly once; when the call
\* resolves, connected is true and connecting is false.
C13_Original ==
  [][/\ (/\ last'.op = "connect"
          /\ state.adapter # Null
          /\ state.readyState \in {Installed, Loadable}
          /\ ~state.connecting /\ ~state.disconnecting /\ ~state.connected)
           => (/\ state'.connecting
               /\ invoked' = {[op |-> "connect", adapter |-> state.adapter]}
               /\ calls' = calls \cup
                            {Call("connect", state.adapter, "connect", Null)})
     /\ (last'.op = "connectSettled" /\ last'.x = Null)
           => (state'.connected /\ ~state'.connecting)]_vars

\* C13, amended: when the call resolves connecting is false, and connected
\* is true if the adapter the call was made on is still the selected one.
C13_ConnectSucceeds ==
  [][/\ (/\ last'.op = "connect"
          /\ state.adapter # Null
          /\ state.readyState \in {Installed, Loadable}
          /\ ~state.connecting /\ ~state.disconnecting /\ ~state.connected)
           => (/\ state'.connecting
               /\ invoked' = {[op |-> "connect", adapter |-> state.adapter]}
               /\ calls' = calls \cup
                            {Call("connect", state.adapter, "connect", Null)})
     /\ (last'.op = "connectSettled" /\ last'.x = Null)
           => (/\ ~state'.connecting
               /\ state.adapter = last'.a => state'.connected)]_vars

\* The connect call made by connect() on A resolved with A still selected.
C13_Witness ==
  /\ last.op = "connectSettled"
  /\ last.a = "A"
  /\ last.x = Null
  /\ result.kind = "value"
  /\ state.adapter = "A"
  /\ state.connected
  /\ ~state.connecting

\* C14: after selectWallet(n) the cell's latest value is n and the stored
\* entry reads back as n; after selectWallet(null) the stored entry is
\* absent, not a serialized null.
C14_PersistedRoundTrip ==
  [][(last'.op = "selectWallet")
       => (/\ name' = last'.a
           /\ last'.a # Null => (/\ storage' # Null
                                 /\ getInitialValue(storage') = last'.a)
           /\ last'.a = Null => storage' = Null)]_vars

\* selectWallet("B") while B is not registered: nothing is selected, and
\* the cell and the stored entry hold B.
C14_Witness ==
  /\ last.op = "selectWallet"
  /\ last.a = "B"
  /\ ~IsRegistered(state, "B")
  /\ state.adapter = Null
  /\ name = "B"
  /\ storage = Stringify("B")

\* C15, as stated: disconnect() with an adapter selected and disconnecting
\* false sets disconnecting and calls the adapter's disconnect; when the
\* call settles disconnecting is false and nothing is selected, and a
\* rejection is the failure of disconnect()'s result.
C15_Original ==
  [][/\ (/\ last'.op = "disconnect"
          /\ state.adapter # Null
          /\ ~state.disconnecting)
           => (/\ state'.disconnecting
               /\ invoked' = {[op |-> "disconnect", adapter |-> state.adapter]})
     /\ (last'.op = "disconnectSettled")
           => (/\ ~state'.disconnecting
               /\ IdleDefaults(state')
               /\ name' = Null
               /\ last'.x # Null
                    => result' = [kind |-> "error", value |-> last'.x])]_vars

\* C16, as stated: connect() on a selected adapter that is neither
\* Installed nor Loadable, with connecting, disconnecting and connected all
\* false, clears the selection, sets state.error to a WalletNotReadyError,
\* fails with that error, leaves connecting false and calls no connect.
C16_Original ==
  [][(/\ last'.op = "connect"
      /\ state.adapter # Null
      /\ state.readyState \notin {Installed, Loadable}
      /\ ~state.connecting /\ ~state.disconnecting /\ ~state.connected)
       => (/\ IdleDefaults(state')
           /\ name' = Null
           /\ storage' = Null
           /\ result' = [kind |-> "error", value |-> WalletNotReadyError]
           /\ state'.error = WalletNotReadyError
           /\ ~state'.connecting
           /\ \A c \in invoked' : c.op # "connect"
           /\ \A c \in calls' \ calls : c.op # "connect")]_vars

\* C16, amended: the same, except that state.error gets the error only
\* while unloading is false and keeps its value while unloading is true.
C16_ConnectNotReady ==
  [][(/\ last'.op = "connect"
      /\ state.adapter # Null
      /\ state.readyState \notin {Installed, Loadable}
      /\ ~state.connecting /\ ~state.disconnecting /\ ~state.connected)
       => (/\ IdleDefaults(state')
           /\ name' = Null
           /\ storage' = Null
           /\ result' = [kind |-> "error", value |-> WalletNotReadyError]
           /\ state'.error = IF state.unloading THEN state.error
                              ELSE WalletNotReadyError
           /\ ~state'.connecting
           /\ \A c \in invoked' : c.op # "connect"
           /\ \A c \in calls' \ calls : c.op # "connect")]_vars

\* connect() was called on A while A was NotDetected: the selection is
\* gone and the call failed with the WalletNotReadyError now in state.error.
C16_Witness ==
  /\ last.op = "connect"
  /\ last.a = "A"
  /\ adapterReadyState["A"] = NotDetected
  /\ result = [kind |-> "error", value |-> WalletNotReadyError]
  /\ state.error = WalletNotReadyError
  /\ IdleDefaults(state)
  /\ storage = Null
  /\ calls = {}

\* C17, as stated: sendTransaction() with no adapter selected fails with
\* WalletNotSelectedError, and with an adapter selected but not connected
\* with WalletNotConnectedError; the error is then in state.error and the
\* adapter's sendTransaction is not called.
C17_Original ==
  [][(last'.op = "sendTransaction" /\ ~state.connected)
       => (/\ result' = [kind |-> "error",
                         value |-> IF state.adapter = Null
                                   THEN WalletNotSelectedError
                                   ELSE WalletNotConnectedError]
           /\ state'.error = result'.value
           /\ invoked' = {}
           /\ calls' = calls)]_vars

\* C17, amended: the same, except that state.error gets the error only
\* while unloading is false and keeps its value while unloading is true.
C17_SendTransactionGuards ==
  [][(last'.op = "sendTransaction" /\ ~state.connected)
       => (/\ result' = [kind |-> "error",
                         value |-> IF state.adapter = Null
                                   THEN WalletNotSelectedError
                                   ELSE WalletNotConnectedError]
           /\ state'.error = IF state.unloading THEN state.error ELSE result'.value
           /\ invoked' = {}
           /\ calls' = calls)]_vars

\* sendTransaction() was called on A, selected and not connected.
C17_Witness ==
  /\ last.op = "sendTransaction"
  /\ last.a = "A"
  /\ state.adapter = "A"
  /\ ~state.connected
  /\ ~state.unloading
  /\ result = [kind |-> "error", value |-> WalletNotConnectedError]
  /\ state.error = WalletNotConnectedError
  /\ invoked = {}

\* C18, as stated: when the adapter call made by disconnect() or by
\* sendTransaction() rejects while unloading is false, the rejection is in
\* state.error and is the failure of the operation's result.
C18_Original ==
  [][(/\ last'.op \in {"disconnectSettled", "sendSettled"}
      /\ last'.x # Null
      /\ ~state.unloading)
       => (/\ result' = [kind |-> "error", value |-> last'.x]
           /\ state'.error = last'.x)]_vars

\* C19: a sendTransaction() that fails, at the call or when the adapter
\* rejects, leaves wallet, adapter, the selected name and the stored entry
\* as they were.
C19_SendFailureKeepsSelection ==
  [][(\/ last'.op = "sendTransaction" /\ result'.kind = "error"
      \/ last'.op = "sendSettled" /\ last'.x # Null)
       => (/\ state'.wallet = state.wallet
           /\ state'.adapter = state.adapter
           /\ name' = name
           /\ storage' = storage)]_vars

\* sendTransaction() failed on A, selected and not connected, and A is
\* still selected and stored.
C19_Witness ==
  /\ last.op = "sendTransaction"
  /\ last.a = "A"
  /\ result = [kind |-> "error", value |-> WalletNotConnectedError]
  /\ state.wallet # NoWallet
  /\ state.adapter = "A"
  /\ name = "A"
  /\ storage = Stringify("A")

\* The selected adapter is ready and not connected while autoConnect is on.
AutoConnectDue(s) ==
  /\ s.autoConnect
  /\ s.adapter # Null
  /\ s.readyState \in {Installed, Loadable}
  /\ ~s.connected

\* C20: with autoConnect on, the store never rests with a ready selected
\* adapter that is neither connected nor connecting: connecting is true and
\* a connect call is pending; a step that reaches that condition with no
\* connect call pending before it makes the call itself, on the selected
\* adapter, and every call the effect makes is on the selected adapter.
\* With autoConnect off every connect call comes from connect().
C20_AutoConnect ==
  /\ [](AutoConnectDue(state)
          => (state.connecting /\ \E c \in calls : c.op = "connect"))
  /\ [](~state.autoConnect
          => \A c \in calls : c.op = "connect" => c.origin = "connect")
  /\ [][/\ (AutoConnectDue(state') /\ \A c \in calls : c.op # "connect")
              => Call("connect", state'.adapter, "autoConnect", Null) \in calls'
         /\ \A c \in calls' \ calls :
              c.origin = "autoConnect"
                => (c.adapter = state'.adapter /\ state'.connecting)]_vars

\* B, Loadable, was selected with autoConnect on: the store is connecting
\* and its connect call on B is pending, with no connect() call made.
C20_Witness ==
  /\ state.autoConnect
  /\ state.adapter = "B"
  /\ state.connecting
  /\ ~state.connected
  /\ calls = {Call("connect", "B", "autoConnect", Null)}

\* C21, as stated: when the connect call made by onAutoConnect rejects, the
\* selection is cleared, connecting is false, no caller receives a failure,
\* and the rejection is in state.error.
C21_Original ==
  [][(last'.op = "autoConnectSettled" /\ last'.x # Null)
       => (/\ IdleDefaults(state')
           /\ name' = Null
           /\ ~state'.connecting
           /\ result'.kind # "error"
           /\ state'.error = last'.x)]_vars


\* C22: while state.unloading is true no step changes state.error: neither an
\* adapter's error event nor an error raised by connect(), disconnect(),
\* sendTransaction() or a signing function.
C22_UnloadingFreezesError ==
  [][state.unloading => state'.error = state.error]_vars

\* The selected adapter emitted an error event while unloading and state.error
\* kept an earlier, different error.
C22_Witness ==
  /\ state.unloading
  /\ last.op = "errorEvent"
  /\ last.a = state.adapter
  /\ state.error # Null
  /\ state.error # last.x

\* C23, as stated: while state.unloading is true an error arising in
\* connect(), disconnect() or sendTransaction() is not recorded in state.error
\* and the returned result does not fail with it.
C23_Original ==
  [][(/\ state.unloading
      /\ last'.op \in {"connectSettled", "disconnectSettled", "sendSettled"}
      /\ last'.x # Null)
       => (state'.error = state.error /\ result'.kind # "error")]_vars

\* C23: while state.unloading is true no step of connect(), disconnect() or
\* sendTransaction() changes state.error, and a rejection of the adapter call
\* they made still fails the returned result with the adapter's error.
C23_UnloadingErrorsStillPropagate ==
  [][state.unloading
       => (/\ state'.error = state.error
           /\ (last'.op \in {"connectSettled", "disconnectSettled", "sendSettled"}
               /\ last'.x # Null)
                => result' = [kind |-> "error", value |-> last'.x])]_vars

\* disconnect() was rejected while unloading: the result failed with the
\* adapter's error and state.error holds none.
C23_Witness ==
  /\ state.unloading
  /\ last.op = "disconnectSettled"
  /\ last.x # Null
  /\ result = [kind |-> "error", value |-> last.x]
  /\ state.error = Null


\* C24, as stated: whenever an adapter is selected and neither connecting nor
\* disconnecting is true, state.connected equals the adapter's connected flag.
C24_Original ==
  (state.adapter # Null /\ ~state.connecting /\ ~state.disconnecting)
    => state.connected = adapterConnected[state.adapter]

\* C24: whenever an adapter is selected, unloading is false and neither
\* connecting nor disconnecting is true, state.connected equals the adapter's
\* connected flag.
C24_ConnectedMirrorsAdapter ==
  (/\ state.adapter # Null
   /\ ~state.unloading
   /\ ~state.connecting
   /\ ~state.disconnecting)
    => state.connected = adapterConnected[state.adapter]

\* A selected adapter is connected, with no call outstanding and the page not
\* unloading.
C24_Witness ==
  /\ state.adapter # Null
  /\ ~state.unloading
  /\ ~state.connecting
  /\ ~state.disconnecting
  /\ adapterConnected[state.adapter]
  /\ state.connected

\* C25, as stated: state.publicKey is present exactly when state.connected is
\* true and the selected adapter reports a public key.
C25_Original ==
  (state.publicKey # Null)
    <=> (/\ state.connected
         /\ state.adapter # Null
         /\ adapterPublicKey[state.adapter] # Null)

\* C25: while unloading is false, state.publicKey is present exactly when
\* state.connected is true and the selected adapter reports a public key, and
\* it is then that key.
C25_PublicKeyIffConnected ==
  ~state.unloading
    => /\ (state.publicKey # Null)
            <=> (/\ state.connected
                 /\ state.adapter # Null
                 /\ adapterPublicKey[state.adapter] # Null)
       /\ state.publicKey # Null
            => state.publicKey = adapterPublicKey[state.adapter]

\* The second adapter is selected and connected, and the state holds its key.
C25_Witness ==
  /\ ~state.unloading
  /\ state.adapter = "B"
  /\ state.connected
  /\ state.publicKey = KeyOf("B")


\* C26: the anchor-wallet view is an object exactly when state.publicKey is
\* present and the selected adapter has both signTransaction and
\* signAllTransactions; otherwise it is undefined.  When defined it carries
\* state.publicKey.
C26_AnchorWalletDefined ==
  LET both == /\ state.adapter # Null
              /\ {"signTransaction", "signAllTransactions"}
                    \subseteq Capabilities(state.adapter)
  IN /\ (anchorWallet(state).kind = "wallet")
          <=> (state.publicKey # Null /\ both)
     /\ (anchorWallet(state).kind = "undefined")
          <=> ~(state.publicKey # Null /\ both)
     /\ anchorWallet(state).kind = "wallet"
          => anchorWallet(state).publicKey = state.publicKey

\* An adapter with signTransaction only is connected and holds a key: the
\* view is undefined although state.publicKey is present.
C26_Witness ==
  /\ state.adapter = "B"
  /\ state.publicKey # Null
  /\ anchorWallet(state).kind = "undefined"


\* C27: a store constructed over a stored entry naming a configured adapter
\* has that adapter selected, without selectWallet being called; constructed
\* over no entry, or over an entry that cannot be deserialized, it starts at
\* the Idle defaults with no name.
C27_SelectionSurvivesReload ==
  last.op = "construct"
    => /\ \A X \in WalletNames :
            (storage = Stringify(X) /\ IsRegistered(state, X))
              => (/\ name = X
                  /\ state.adapter = X
                  /\ state.wallet = [adapter |-> X,
                                     readyState |-> adapterReadyState[X]]
                  /\ state.readyState = adapterReadyState[X])
       /\ storage \in {Null, "{"} => (name = Null /\ IdleDefaults(state))

\* A store was constructed over the stored name of the second adapter and
\* has it selected.
C27_Witness ==
  /\ last.op = "construct"
  /\ storage = Stringify("B")
  /\ state.adapter = "B"
  /\ state.wallet.adapter = "B"


\* C28: in every reachable state the connect, disconnect and error listeners
\* are registered on the selected adapter only, one per event name, and on no
\* adapter when nothing is selected; an adapter that stopped being the
\* selected one holds none.
C28_ListenersFollowSelection ==
  \A a \in AdapterNames, ev \in BridgedEvents :
    listeners[a][ev] = IF a = state.adapter THEN 1 ELSE 0

\* The selection moved from A to B while A was connected: the cleanup
\* disconnect of A is pending, B holds the three listeners and A none.
C28_Witness ==
  /\ state.adapter = "B"
  /\ \E c \in calls : c.origin = "cleanup" /\ c.adapter = "A"
  /\ \A ev \in BridgedEvents : listeners["B"][ev] = 1 /\ listeners["A"][ev] = 0


\* C29, as stated: whenever the selected adapter changes and the previous
\* adapter reports connected, the cleanup effect invokes that adapter's
\* disconnect, at once or when the cleanup disconnect before it has settled;
\* also after an earlier cleanup disconnect was rejected.
C29_Original ==
  [][(/\ state.adapter # Null
      /\ state'.adapter # state.adapter
      /\ adapterConnected'[state.adapter])
       => (\/ \E c \in calls' \ calls :
                /\ c.op = "disconnect"
                /\ c.adapter = state.adapter
                /\ c.origin = "cleanup"
           \/ \E i \in DOMAIN cleanup'.buf : cleanup'.buf[i] = state.adapter)]_vars


\* C30: no step invokes an adapter's connect, from connect() or from
\* onAutoConnect, while a connect invoked earlier is still pending, and no
\* step invokes disconnect from disconnect() while the call of an earlier
\* disconnect() is still pending; so at most one of each is ever pending.
C30_NoOverlappingCalls ==
  /\ Cardinality({c \in calls : c.op = "connect"}) <= 1
  /\ Cardinality({c \in calls : c.origin = "disconnect"}) <= 1
  /\ \A w \in StepWorlds :
       LET started == w.calls \ calls
           pending == w.calls \cap calls
       IN /\ ~w.dup
          /\ (\E c \in started : c.op = "connect")
               => ~\E d \in pending : d.op = "connect"
          /\ (\E c \in started : c.origin = "disconnect")
               => ~\E d \in pending : d.origin = "disconnect"

\* A connect started by onAutoConnect and a disconnect started by disconnect()
\* are both pending, and connect() and disconnect() called now invoke nothing.
C30_Witness ==
  /\ \E c \in calls : c.op = "connect" /\ c.origin = "autoConnect"
  /\ \E c \in calls : c.origin = "disconnect"
  /\ state.adapter # Null
  /\ connect(World).invoked = {}
  /\ disconnect(World).invoked = {}


\* C31: a readyStateChange event with value r from a registered adapter X
\* sets the readyState of X's entry in wallets to r, sets the top-level
\* readyState to r only when X is the selected adapter, and leaves the other
\* entries as they were; in every state wallets has one entry per registered
\* adapter, in the order of adapters.
C31_ReadyStateChangeFrame ==
  /\ [][(last'.op = "readyStateChange" /\ IsRegistered(state, last'.a))
         => (/\ state'.adapters = state.adapters
             /\ state'.wallets =
                  [i \in DOMAIN state.wallets |->
                     IF state.wallets[i].adapter = last'.a
                     THEN [adapter |-> last'.a, readyState |-> last'.x]
                     ELSE state.wallets[i]]
             /\ state'.readyState = IF state.adapter = last'.a
                                     THEN last'.x ELSE state.readyState)]_vars
  /\ [](/\ Len(state.wallets) = Len(state.adapters)
        /\ \A i \in DOMAIN state.wallets :
             state.wallets[i].adapter = state.adapters[i])

\* B is selected when the registered adapter A reports NotDetected: A's entry
\* holds the new value and the top-level readyState is still B's.
C31_Witness ==
  /\ last = Label("readyStateChange", "A", NotDetected)
  /\ state.adapter = "B"
  /\ state.readyState = Loadable
  /\ \E i \in DOMAIN state.wallets :
       state.wallets[i] = [adapter |-> "A", readyState |-> NotDetected]


\* C32: in every state the selection is the adapter registered under the
\* persisted name: a name with no registered adapter leaves the state at the
\* Idle defaults while the cell and the stored entry hold that name; a step
\* that changes the registered list without changing the name (setAdapters)
\* selects the adapter it registers under that name and resets the state to
\* the Idle defaults when it removes the selected adapter.
C32_SelectionReconciled ==
  /\ []((name # Null /\ ~IsRegistered(state, name))
          => (IdleDefaults(state) /\ storage = Stringify(name)))
  /\ [][state'.adapters # state.adapters
         => (/\ name' = name
             /\ (name # Null /\ IsRegistered(state', name))
                  => (/\ state'.adapter = name
                      /\ state'.wallet = [adapter |-> name,
                                          readyState |-> adapterReadyState[name]]
                      /\ state'.readyState = adapterReadyState[name])
             /\ (state.adapter # Null /\ ~IsRegistered(state', state.adapter))
                  => IdleDefaults(state'))]_vars

\* B is the persisted name and is not registered, the state is at the Idle
\* defaults, and the cleanup disconnect of B, started when it stopped being
\* the selected adapter, is pending.
C32_Witness ==
  /\ name = "B"
  /\ storage = Stringify("B")
  /\ ~IsRegistered(state, "B")
  /\ IdleDefaults(state)
  /\ \E c \in calls : c.origin = "cleanup" /\ c.adapter = "B"

\* C33: a connect, error or readyStateChange event from any adapter leaves
\* the selection as it was: state.adapter, the adapter of state.wallet, the
\* persisted name and the stored entry are the same after the event.  The
\* steps are told by what only they do: an adapter becomes connected, an
\* adapter's readyState changes, state.error becomes an adapter's error.
C33_EventsKeepSelection ==
  [][(\/ \E a \in AdapterNames : ~adapterConnected[a] /\ adapterConnected'[a]
      \/ adapterReadyState' # adapterReadyState
      \/ (state'.error # state.error /\ state'.error \in AdapterErrors))
       => (/\ state'.adapter = state.adapter
           /\ state'.wallet.adapter = state.wallet.adapter
           /\ name' = name
           /\ storage' = storage)]_vars

\* The selected adapter A emitted an error, reported NotDetected and became
\* connected, and is still selected.
C33_Witness ==
  /\ state.adapter = "A"
  /\ state.wallet.adapter = "A"
  /\ name = "A"
  /\ state.error \in AdapterErrors
  /\ state.readyState = NotDetected
  /\ state.connected


\* C34: a store constructed while the read throws, or over an entry that
\* cannot be deserialized, starts with no name at the Idle defaults; a
\* selectWallet whose write throws fails nothing, leaves the entry as it
\* was, makes the value the cell's latest value and delivers it to
\* onWalletChanged, which selects the adapter of that name if registered.
C34_StorageFailuresSwallowed ==
  /\ [][last'.op = "selectWalletWriteFails"
         => (/\ result'.kind # "error"
             /\ storage' = storage
             /\ name' = last'.a
             /\ IF last'.a # Null /\ IsRegistered(state', last'.a)
                THEN state'.adapter = last'.a /\ state'.wallet.adapter = last'.a
                ELSE IdleDefaults(state'))]_vars
  /\ []((\/ last.op = "constructReadFails"
         \/ (last.op = "construct" /\ storage = "{"))
          => (name = Null /\ IdleDefaults(state) /\ result.kind # "error"))

\* The write of selectWallet("B") failed over the stored entry of A: the
\* entry is still A's, the cell holds B and B is selected.
C34_Witness ==
  /\ last = Label("selectWalletWriteFails", "B", Null)
  /\ storage = Stringify("A")
  /\ name = "B"
  /\ state.adapter = "B"


\* C35, as stated: a signing call that fails leaves state.error unchanged.
C35_Original ==
  [][(last'.op \in SignOps /\ result'.kind = "error")
       => state'.error = state.error]_vars

\* C35: a signing call that fails because state.connected is false records
\* WalletNotConnectedError in state.error unless unloading is true, and
\* changes no other field; the settlement of an adapter's signing call,
\* resolved or rejected, changes no field of the state.
C35_SigningFailureFrame ==
  [][/\ (last'.op \in SignOps /\ result'.kind = "error")
          => state' = [state EXCEPT !.error = IF state.unloading THEN @
                                             ELSE WalletNotConnectedError]
     /\ (\E c \in calls \ calls' : c.origin = "sign") => state' = state]_vars

\* signMessage failed on a selected adapter that is not connected and
\* state.error holds WalletNotConnectedError.
C35_Witness ==
  /\ last.op = "signMessage"
  /\ last.a # Null
  /\ result.kind = "error"
  /\ ~state.connected
  /\ ~state.unloading
  /\ state.error = WalletNotConnectedError


\* C36: the step that sets unloading to true changes no other field of the
\* state, and once unloading is true every later step leaves it true.
C36_UnloadingMonotone ==
  [][/\ (~state.unloading /\ state'.unloading)
          => state' = [state EXCEPT !.unloading = TRUE]
     /\ state.unloading => state'.unloading]_vars

\* The page started unloading and the selected adapter has disconnected
\* since: unloading is still true.
C36_Witness ==
  /\ state.unloading
  /\ state.adapter # Null
  /\ state.connected
  /\ ~adapterConnected[state.adapter]


\* C37, as stated: when the adapter call of connect() or disconnect() settles
\* while another adapter is selected, the settlement leaves state.adapter,
\* state.wallet and the persisted name as they were.
C37_Original ==
  [][(/\ last'.op \in {"connectSettled", "disconnectSettled"}
      /\ state.adapter # Null
      /\ last'.a # state.adapter)
       => (/\ state'.adapter = state.adapter
           /\ state'.wallet = state.wallet
           /\ name' = name
           /\ storage' = storage)]_vars


\* C38, as stated: no adapter signing operation is invoked while
\* state.connected is false, also when the signing stream was obtained while
\* connected and is subscribed after a disconnect or a selection change.
C38_Original ==
  [][(last'.op = "subscribe" /\ ~state.connected)
       => (invoked' = {} /\ calls' \subseteq calls)]_vars


\* C39: when every adapter call eventually settles, neither flag stays true
\* forever.  connecting is true only while a connect call is pending and
\* disconnecting only while the call of disconnect() is pending; connecting
\* true leads to connecting false, or to the settlement of onAutoConnect's
\* call, whose finalize resets connecting before the concatMap starts the
\* connect buffered behind it within the same step; disconnecting true leads
\* to disconnecting false.
C39_FlagsReset ==
  /\ [](state.connecting => \E c \in calls : c.op = "connect")
  /\ [](state.disconnecting => PendingCall("disconnect", "disconnect"))
  /\ state.connecting ~> (~state.connecting \/ last.op = "autoConnectSettled")
  /\ state.disconnecting ~> ~state.disconnecting

\* The connect started by onAutoConnect was rejected while another adapter
\* had been selected, and connecting is false.
C39_Witness ==
  /\ last.op = "autoConnectSettled"
  /\ last.x # Null
  /\ ~state.connecting
  /\ ~state.disconnecting
  /\ calls = {}


\* C40: state.error is never cleared.  Once it holds an error it holds one in
\* every later state, and whenever it changes, it changes to an error: no
\* selectWallet call, settled connect or disconnect, or reset to the Idle
\* defaults sets it back to absent.
C40_ErrorNeverCleared ==
  [][/\ state.error # Null => state'.error # Null
     /\ state'.error # state.error => state'.error # Null]_vars

\* An adapter's error event was recorded while that adapter was selected, and
\* the selection has since been cleared and the fields reset to the Idle
\* defaults; the error is still there.
C40_Witness ==
  /\ state.error \in AdapterErrors
  /\ name = Null
  /\ IdleDefaults(state)
  /\ state.wallets # <<>>
  /\ ~state.unloading

====
